---- MODULE Spec2Model ----
(***************************************************************************)
(* rstest-insta: the attribute macro that rewrites a test function so that *)
(* rstest's parameterized cases and insta's snapshots compose.             *)
(*                                                                         *)
(* Two copies of the code generator exist in the repository:               *)
(*   "root"   : src/src/codegen.rs                                         *)
(*   "macros" : src/crates/macros/src/codegen.rs                           *)
(* They differ only in how context_var treats a method receiver.           *)
(*                                                                         *)
(* Spec    : the expansion pipeline  expand_attribute -> context_binding   *)
(*           -> expand_body  over bounded input functions.                 *)
(* SpecRun : the same pipeline over a few signatures, followed by calls of *)
(*           the generated function with bounded rstest Context values.    *)
(***************************************************************************)
EXTENDS Naturals, Sequences, FiniteSets, TLC

VARIABLES
    impl,        \* which copy of codegen.rs expands the function
    input_fn,    \* the parsed ItemFn handed to expand (kept for reference)
    item,        \* the ItemFn as rewritten so far
    pc,          \* position in expand, then in a call of the generated fn
    panic,       \* the panic message that aborted the expansion, or NoPanic
    ctx_binding, \* the Ident returned by context_binding, or NoIdent
    lookups,     \* the crate_name calls made so far: name, FoundCrate, Path
    ctx,         \* the rstest Context passed to the running call
    suffix,      \* the local __rstest_insta__suffix of the running call
    scope,       \* the insta settings bound around the running block
    ip,          \* index of the next statement of the relocated block
    events,      \* what the running call has done so far, in order
    captures,    \* snapshot_suffix tags of the captures of the running call
    last         \* the case and suffix of the previous completed call

vars == <<impl, input_fn, item, pc, panic, ctx_binding, lookups,
          ctx, suffix, scope, ip, events, captures, last>>

pipeline_vars == <<impl, input_fn, item, panic, ctx_binding, lookups>>
runtime_vars == <<ctx, suffix, scope, ip, events, captures, last>>

----------------------------------------------------------------------------
(* Bounds of the model.                                                    *)

MaxParams == 2
MaxAttrs == 2
MaxStmts == 2

----------------------------------------------------------------------------
(* Generic helpers.                                                        *)

\* Vec::insert / Punctuated::insert: x placed at 0-based index idx.
Insert(seq, idx, x) ==
    SubSeq(seq, 1, idx) \o <<x>> \o SubSeq(seq, idx + 1, Len(seq))

SeqsUpTo(S, n) == UNION {[1..k -> S] : k \in 0..n}

----------------------------------------------------------------------------
(* Symbol resolution: crates/macros/src/utils.rs                           *)

NoPanic == "none"
MissingDependency == "missing crate in Cargo.toml"
UnsupportedReceiver == "self type not supported"

Itself == [tag |-> "Itself", name |-> ""]
Name(name) == [tag |-> "Name", name |-> name]
LookupErr == [tag |-> "Err", name |-> ""]

\* What proc_macro_crate::crate_name can answer for a crate: the macro is
\* expanded inside that crate, the crate is a dependency known under some
\* name, or it is not found.
LookupResults == {Itself, Name("renamed"), LookupErr}

\* parse_quote!(::#ident)
AbsolutePath(ident) == [leading_colon |-> TRUE, segments |-> <<ident>>]

IdentPath(ident) == [leading_colon |-> FALSE, segments |-> <<ident>>]

\* A mutation of resolve_crate_name: the name found is ignored.
resolve_crate_name_ignores_alias(crate_name, found_crate) ==
    AbsolutePath(crate_name)

resolve_crate_name(crate_name, found_crate) ==
    IF found_crate.tag = "Itself"
    THEN AbsolutePath(crate_name)
    ELSE AbsolutePath(found_crate.name)

\* crate_name: Ok(path), or the panic of .expect(..) on a failed lookup.
crate_name(name, lookup) ==
    IF lookup.tag = "Err"
    THEN [ok |-> FALSE, path |-> AbsolutePath(""), panic |-> MissingDependency]
    ELSE [ok |-> TRUE, path |-> resolve_crate_name(name, lookup),
          panic |-> NoPanic]

----------------------------------------------------------------------------
(* The syntax tree: syn::ItemFn, syn::FnArg, syn::Attribute.               *)

DEFAULT_CTX_BINDING == "__rstest_insta__ctx"
RSTEST_INSTA_SUFFIX == "__rstest_insta__suffix"
NoIdent == ""

ArgNames == <<"a", "b", "c", "d">>
UserAttrs == {"attr1", "attr2"}
StmtTexts == {"println", "assert_snapshot"}

\* A statement of the original body: opaque tokens, never inspected.
Stmts == {[kind |-> "Expr", text |-> t] : t \in StmtTexts}

PathAttr(path) == [path |-> path, meta |-> "Path"]

\* The i-th parameter of an input function.  attrs are the names of the
\* attributes of the parameter; pat is the pattern kind (an identifier or not).
TypedArgs(i) ==
    {[kind |-> "Typed", attrs |-> a, pat |-> p,
      ident |-> IF p = "Ident" THEN ArgNames[i] ELSE "_",
      ty |-> IF a = <<>> THEN "usize" ELSE "Context"] :
        a \in {<<>>, <<"context">>}, p \in {"Ident", "Wild"}}

Receivers ==
    {[kind |-> "Receiver", attrs |-> a, pat |-> "Self", ident |-> "self",
      ty |-> "Self"] : a \in {<<>>, <<"context">>}}

\* syn accepts a receiver only as the first parameter.
ArgsAt(i) == IF i = 1 THEN TypedArgs(i) \cup Receivers ELSE TypedArgs(i)

Signatures ==
    {s \in SeqsUpTo(UNION {ArgsAt(i) : i \in 1..MaxParams}, MaxParams) :
        \A i \in DOMAIN s : s[i] \in ArgsAt(i)}

InputFns ==
    {[ident |-> "my_test",
      attrs |-> [i \in DOMAIN a |-> PathAttr(IdentPath(a[i]))],
      inputs |-> s,
      block |-> b] :
        a \in SeqsUpTo(UserAttrs, MaxAttrs),
        s \in Signatures,
        b \in SeqsUpTo(Stmts, MaxStmts)}

\* attrs.iter().any(|attr| attr.path().is_ident("context"))
HasContextAttr(arg) == \E i \in DOMAIN arg.attrs : arg.attrs[i] = "context"

----------------------------------------------------------------------------
(* codegen.rs                                                              *)

expand_attribute_appends(fn, rstest_crate) ==
    [fn EXCEPT !.attrs = Append(@, PathAttr(
        [rstest_crate EXCEPT !.segments = Append(@, "rstest")]))]

\* expand_attribute, given the path crate_name("rstest") resolved to.
expand_attribute(fn, rstest_crate) ==
    [fn EXCEPT !.attrs = Insert(@, 0, PathAttr(
        [rstest_crate EXCEPT !.segments = Append(@, "rstest")]))]

Some(ident) == [tag |-> "Some", ident |-> ident]
None == [tag |-> "None", ident |-> NoIdent]
Panicked == [tag |-> "Panic", ident |-> NoIdent]

\* One element through the two filter_map closures, receiver aside.
TypedContextIdent(arg) ==
    IF HasContextAttr(arg) /\ arg.pat = "Ident" THEN Some(arg.ident) ELSE None

\* A mutation of the scan: the last match is returned, not the first.
RECURSIVE context_var_last(_, _)
context_var_last(args, i) ==
    IF i > Len(args) THEN None
    ELSE LET rest == context_var_last(args, i + 1) IN
         IF args[i].kind = "Receiver" THEN Panicked
         ELSE IF rest.tag # "None" THEN rest
         ELSE TypedContextIdent(args[i])

\* A mutation of the scan: the pattern of a context parameter is not examined.
RECURSIVE context_var_any_pattern(_, _)
context_var_any_pattern(args, i) ==
    IF i > Len(args) THEN None
    ELSE IF args[i].kind = "Receiver" THEN Panicked
    ELSE IF HasContextAttr(args[i]) THEN Some(args[i].ident)
    ELSE context_var_any_pattern(args, i + 1)

\* context_var of src/src/codegen.rs, scanning from the i-th argument: the
\* lazy iterator chain stops at the first identifier it yields and panics
\* on a receiver it visits before that.
RECURSIVE context_var(_, _)
context_var(args, i) ==
    IF i > Len(args) THEN None
    ELSE IF args[i].kind = "Receiver" THEN Panicked
    ELSE IF TypedContextIdent(args[i]).tag = "Some"
         THEN TypedContextIdent(args[i])
         ELSE context_var(args, i + 1)

\* context_var of crates/macros/src/codegen.rs: a receiver yields nothing.
RECURSIVE macros_context_var(_, _)
macros_context_var(args, i) ==
    IF i > Len(args) THEN None
    ELSE IF args[i].kind = "Receiver" THEN macros_context_var(args, i + 1)
    ELSE IF TypedContextIdent(args[i]).tag = "Some"
         THEN TypedContextIdent(args[i])
         ELSE macros_context_var(args, i + 1)

\* parse_quote! { #[context] #default_ctx_binding: Context }
DefaultCtxArg ==
    [kind |-> "Typed", attrs |-> <<"context">>, pat |-> "Ident",
     ident |-> DEFAULT_CTX_BINDING, ty |-> "Context"]

context_binding_appends(which, fn) ==
    LET found == IF which = "root" THEN context_var(fn.inputs, 1)
                 ELSE macros_context_var(fn.inputs, 1) IN
    IF found.tag = "Panic"
    THEN [ok |-> FALSE, fn |-> fn, ident |-> NoIdent]
    ELSE IF found.tag = "Some"
    THEN [ok |-> TRUE, fn |-> fn, ident |-> found.ident]
    ELSE [ok |-> TRUE,
          fn |-> [fn EXCEPT !.inputs = Append(@, DefaultCtxArg)],
          ident |-> DEFAULT_CTX_BINDING]

\* context_binding of either copy: the function and the binding, or the
\* panic of context_var.
context_binding(which, fn) ==
    LET found == IF which = "root" THEN context_var(fn.inputs, 1)
                 ELSE macros_context_var(fn.inputs, 1) IN
    IF found.tag = "Panic"
    THEN [ok |-> FALSE, fn |-> fn, ident |-> NoIdent]
    ELSE IF found.tag = "Some"
    THEN [ok |-> TRUE, fn |-> fn, ident |-> found.ident]
    ELSE [ok |-> TRUE,
          fn |-> [fn EXCEPT !.inputs = Insert(@, 0, DefaultCtxArg)],
          ident |-> DEFAULT_CTX_BINDING]

\* The init expression of the generated let statement:
\* #ctx_binding.description.map(|s| s.to_string())
\*     .unwrap_or(#ctx_binding.case.unwrap_or(0).to_string())
SuffixExpr(binding) == [kind |-> "SuffixOf", binding |-> binding]

expand_body_drops_block(fn, binding, insta_crate) ==
    [fn EXCEPT !.block =
        <<[kind |-> "Local", ident |-> RSTEST_INSTA_SUFFIX,
           init |-> SuffixExpr(binding)],
          [kind |-> "Macro",
           path |-> [insta_crate EXCEPT
                        !.segments = Append(@, "with_settings")],
           snapshot_suffix |-> RSTEST_INSTA_SUFFIX,
           body |-> <<>>]>>]

\* expand_body, given the path crate_name("insta") resolved to: the new
\* block is the let statement and the with_settings! invocation whose
\* second argument holds the former block.
expand_body(fn, binding, insta_crate) ==
    [fn EXCEPT !.block =
        <<[kind |-> "Local", ident |-> RSTEST_INSTA_SUFFIX,
           init |-> SuffixExpr(binding)],
          [kind |-> "Macro",
           path |-> [insta_crate EXCEPT
                        !.segments = Append(@, "with_settings")],
           snapshot_suffix |-> RSTEST_INSTA_SUFFIX,
           body |-> fn.block]>>]

----------------------------------------------------------------------------
(* The expansion pipeline: expand of codegen.rs, one pass per step.        *)

NoContext == [description |-> [tag |-> "None"], case |-> [tag |-> "None"]]
Unset == [tag |-> "Unset"]
NoScope == [tag |-> "NoScope"]
NoCall == [tag |-> "NoCall"]

RuntimeInit ==
    /\ ctx = NoContext
    /\ suffix = Unset
    /\ scope = NoScope
    /\ ip = 1
    /\ events = <<>>
    /\ captures = <<>>
    /\ last = NoCall

PipelineInit(fns, impls) ==
    /\ impl \in impls
    /\ input_fn \in fns
    /\ item = input_fn
    /\ pc = "parsed"
    /\ panic = NoPanic
    /\ ctx_binding = NoIdent
    /\ lookups = <<>>

Init == PipelineInit(InputFns, {"root", "macros"}) /\ RuntimeInit

\* let input_fn = expand_attribute(input_fn);
ExpandAttribute ==
    /\ pc = "parsed"
    /\ \E found \in LookupResults :
        LET r == crate_name("rstest", found) IN
        /\ lookups' = Append(lookups, [crate_name |-> "rstest",
                                       found |-> found, result |-> r])
        /\ IF r.ok
           THEN /\ item' = expand_attribute(item, r.path)
                /\ pc' = "attr_expanded"
                /\ panic' = panic
           ELSE /\ item' = item
                /\ pc' = "aborted"
                /\ panic' = r.panic
    /\ UNCHANGED <<impl, input_fn, ctx_binding>>
    /\ UNCHANGED runtime_vars

\* let (input_fn, ctx_binding) = context_binding(input_fn);
ContextBinding ==
    /\ pc = "attr_expanded"
    /\ LET r == context_binding(impl, item) IN
        IF r.ok
        THEN /\ item' = r.fn
             /\ ctx_binding' = r.ident
             /\ pc' = "bound"
             /\ panic' = panic
        ELSE /\ item' = item
             /\ ctx_binding' = ctx_binding
             /\ pc' = "aborted"
             /\ panic' = UnsupportedReceiver
    /\ UNCHANGED <<impl, input_fn, lookups>>
    /\ UNCHANGED runtime_vars

\* let input_fn = expand_body(input_fn, ctx_binding);
ExpandBody ==
    /\ pc = "bound"
    /\ \E found \in LookupResults :
        LET r == crate_name("insta", found) IN
        /\ lookups' = Append(lookups, [crate_name |-> "insta",
                                       found |-> found, result |-> r])
        /\ IF r.ok
           THEN /\ item' = expand_body(item, ctx_binding, r.path)
                /\ pc' = "expanded"
                /\ panic' = panic
           ELSE /\ item' = item
                /\ pc' = "aborted"
                /\ panic' = r.panic
    /\ UNCHANGED <<impl, input_fn, ctx_binding>>
    /\ UNCHANGED runtime_vars

Next == ExpandAttribute \/ ContextBinding \/ ExpandBody

Spec == Init /\ [][Next]_vars

----------------------------------------------------------------------------
(* A call of the generated function.  rstest hands its Context to every    *)
(* parameter marked #[context]; the generated block runs its let statement *)
(* and then the with_settings! invocation, which binds the settings around *)
(* the block it is given and runs that block.                              *)

OptSome(v) == [tag |-> "Some", val |-> v]
OptNone == [tag |-> "None"]

CaseOrdinals == {0, 3, 12}
\* rstest takes a description from the identifier of #[case::<identifier>].
Descriptions == {"alpha", "beta"}

\* rstest::Context { description: Option<&str>, case: Option<usize>, .. }
Contexts ==
    {[description |-> d, case |-> c] :
        d \in {OptNone} \cup {OptSome(x) : x \in Descriptions},
        c \in {OptNone} \cup {OptSome(n) : n \in CaseOrdinals}}

Digits == <<"0", "1", "2", "3", "4", "5", "6", "7", "8", "9">>

\* usize::to_string: the decimal digits, most significant first.
RECURSIVE to_string(_)
to_string(n) ==
    IF n < 10 THEN Digits[n + 1]
    ELSE to_string(n \div 10) \o Digits[(n % 10) + 1]

\* Option::unwrap_or
unwrap_or(opt, default) == IF opt.tag = "Some" THEN opt.val ELSE default

\* Option::map(|s| s.to_string()) on an Option<&str>
map_to_string(opt) == IF opt.tag = "Some" THEN OptSome(opt.val) ELSE OptNone

suffix_of_case_first(c) ==
    IF c.case.tag = "Some" THEN to_string(c.case.val)
    ELSE unwrap_or(map_to_string(c.description), to_string(0))

\* The value of the init expression of the generated let statement.
suffix_of(c) ==
    unwrap_or(map_to_string(c.description), to_string(unwrap_or(c.case, 0)))

\* The parameters of the generated function that receive the Context.
ContextParams(fn) ==
    {fn.inputs[i].ident : i \in {j \in DOMAIN fn.inputs :
                                    HasContextAttr(fn.inputs[j])}}

RunSignatures ==
    {<<>>,
     <<[kind |-> "Typed", attrs |-> <<>>, pat |-> "Ident", ident |-> "a",
        ty |-> "usize"]>>,
     <<[kind |-> "Typed", attrs |-> <<>>, pat |-> "Ident", ident |-> "a",
        ty |-> "usize"],
       [kind |-> "Typed", attrs |-> <<"context">>, pat |-> "Ident",
        ident |-> "toto", ty |-> "Context"]>>}

RunFns ==
    {[ident |-> "my_test", attrs |-> <<>>, inputs |-> s, block |-> b] :
        s \in RunSignatures, b \in SeqsUpTo(Stmts, MaxStmts)}

InitRun == PipelineInit(RunFns, {"root", "macros"}) /\ RuntimeInit

\* rstest calls the generated function for one case.
Invoke ==
    /\ pc \in {"expanded", "returned"}
    /\ \E c \in Contexts : ctx' = c
    /\ last' = IF pc = "returned"
               THEN [tag |-> "Call", case |-> ctx.case, suffix |-> suffix]
               ELSE last
    /\ suffix' = Unset
    /\ scope' = NoScope
    /\ ip' = 1
    /\ events' = <<>>
    /\ captures' = <<>>
    /\ pc' = "called"
    /\ UNCHANGED pipeline_vars

\* let __rstest_insta__suffix = <init expression>;
EvalSuffix ==
    /\ pc = "called"
    /\ item.block[1].kind = "Local"
    /\ item.block[1].init.binding \in ContextParams(item)
    /\ suffix' = suffix_of(ctx)
    /\ events' = Append(events, "compute_suffix")
    /\ pc' = "at_settings"
    /\ UNCHANGED <<ctx, scope, ip, captures, last>>
    /\ UNCHANGED pipeline_vars

\* with_settings!({snapshot_suffix => __rstest_insta__suffix}, { .. }):
\* the settings are bound before the block runs.
EnterScope ==
    /\ pc = "at_settings"
    /\ item.block[2].kind = "Macro"
    /\ item.block[2].snapshot_suffix = item.block[1].ident
    /\ scope' = [tag |-> "Settings", snapshot_suffix |-> suffix]
    /\ events' = Append(events, "enter_scope")
    /\ ip' = 1
    /\ pc' = "in_scope"
    /\ UNCHANGED <<ctx, suffix, captures, last>>
    /\ UNCHANGED pipeline_vars

\* One statement of the block given to with_settings!; a snapshot
\* assertion records under the suffix of the settings in force.
ExecStmt ==
    /\ pc = "in_scope"
    /\ ip <= Len(item.block[2].body)
    /\ events' = Append(events, item.block[2].body[ip].text)
    /\ captures' = IF item.block[2].body[ip].text = "assert_snapshot"
                   THEN Append(captures, scope.snapshot_suffix)
                   ELSE captures
    /\ ip' = ip + 1
    /\ UNCHANGED <<pc, ctx, suffix, scope, last>>
    /\ UNCHANGED pipeline_vars

\* The block has run: the settings are unbound and the call returns.
ExitScope ==
    /\ pc = "in_scope"
    /\ ip > Len(item.block[2].body)
    /\ scope' = NoScope
    /\ events' = Append(events, "exit_scope")
    /\ pc' = "returned"
    /\ UNCHANGED <<ctx, suffix, ip, captures, last>>
    /\ UNCHANGED pipeline_vars

NextRun ==
    \/ ExpandAttribute
    \/ ContextBinding
    \/ ExpandBody
    \/ Invoke
    \/ EvalSuffix
    \/ EnterScope
    \/ ExecStmt
    \/ ExitScope

SpecRun == InitRun /\ [][NextRun]_vars

----------------------------------------------------------------------------
(* Vocabulary of the claims.                                               *)

\* The positions of the parameters that carry the context marker.
Marked(args) ==
    {i \in DOMAIN args : \E k \in DOMAIN args[i].attrs :
                            args[i].attrs[k] = "context"}

\* The positions of the marked parameters that bind an identifier.
MarkedIdents(args) ==
    {i \in Marked(args) : args[i].kind = "Typed" /\ args[i].pat = "Ident"}

HasReceiver(args) == Len(args) >= 1 /\ args[1].kind = "Receiver"

Min(S) == CHOOSE i \in S : \A j \in S : i <= j

SentinelArg ==
    [kind |-> "Typed", attrs |-> <<"context">>, pat |-> "Ident",
     ident |-> "__rstest_insta__ctx", ty |-> "Context"]

\* expand_attribute has returned / context_binding has returned /
\* context_binding has panicked.
AttributeExpanded == pc \in {"attr_expanded", "bound", "expanded"}
BindingReturned == pc \in {"bound", "expanded"}
BindingPanicked ==
    /\ pc = "aborted"
    /\ Len(lookups) = 1
    /\ lookups[1].found.tag # "Err"

----------------------------------------------------------------------------
(* Claims about the expansion (Spec).                                      *)

\* C1, as stated: whenever expand completes, exactly one parameter of the
\* result carries the context marker.
C1_ExactlyOneMarked ==
    pc = "expanded" => Cardinality(Marked(item.inputs)) = 1

\* C1, amended: whenever expand completes, the result has a marked
\* parameter; the bound one is either the first original marked parameter
\* with an identifier pattern, the list being unchanged, or a synthesized
\* one at position 0 in front of the unchanged original list; and exactly
\* one parameter is marked when the input had no marked parameter or a
\* single one with an identifier pattern.
C1_BoundParameter ==
    pc = "expanded" =>
        /\ Marked(item.inputs) # {}
        /\ \/ /\ MarkedIdents(input_fn.inputs) # {}
              /\ item.inputs = input_fn.inputs
              /\ ctx_binding =
                    item.inputs[Min(MarkedIdents(input_fn.inputs))].ident
           \/ /\ MarkedIdents(input_fn.inputs) = {}
              /\ item.inputs = <<SentinelArg>> \o input_fn.inputs
              /\ ctx_binding = item.inputs[1].ident
        /\ (/\ Cardinality(Marked(input_fn.inputs)) <= 1
            /\ Marked(input_fn.inputs) = MarkedIdents(input_fn.inputs))
           => Cardinality(Marked(item.inputs)) = 1

C1_Witness ==
    /\ pc = "expanded"
    /\ Len(input_fn.inputs) = 2
    /\ Marked(input_fn.inputs) = {2}
    /\ MarkedIdents(input_fn.inputs) = {}
    /\ Cardinality(Marked(item.inputs)) = 2

\* C4, as stated: when some parameter carries the context marker,
\* context_binding raises no error, returns the function unchanged and
\* returns the name of the first marked parameter.
C4_FirstMarkedWins ==
    (Marked(input_fn.inputs) # {} /\ (BindingReturned \/ BindingPanicked)) =>
        /\ BindingReturned
        /\ item.inputs = input_fn.inputs
        /\ ctx_binding = input_fn.inputs[Min(Marked(input_fn.inputs))].ident

\* C4, amended: context_binding raises no error when the function has no
\* receiver; when it returns and some marked parameter has an identifier
\* pattern, the function is unchanged and the name returned is that of the
\* first marked parameter with an identifier pattern, later ones ignored.
C4_FirstMarkedIdentWins ==
    /\ BindingPanicked => HasReceiver(input_fn.inputs)
    /\ (MarkedIdents(input_fn.inputs) # {} /\ BindingReturned) =>
        /\ item.inputs = input_fn.inputs
        /\ ctx_binding =
              input_fn.inputs[Min(MarkedIdents(input_fn.inputs))].ident

C4_Witness ==
    /\ pc = "bound"
    /\ impl = "root"
    /\ MarkedIdents(input_fn.inputs) = {1, 2}
    /\ ctx_binding = "a"

C6_ReceiverRejected ==
    (HasReceiver(input_fn.inputs) /\ (BindingReturned \/ BindingPanicked)) =>
        /\ pc = "aborted"
        /\ panic = "self type not supported"

\* C7: after expand_attribute the attribute list is one longer, its first
\* element is the argument-less marker <resolved rstest path>::rstest, and
\* the original attributes follow in their original order.
C7_MarkerFirst ==
    AttributeExpanded =>
        /\ Len(item.attrs) = Len(input_fn.attrs) + 1
        /\ item.attrs[1] =
              [path |-> [leading_colon |-> TRUE,
                         segments |->
                            <<IF lookups[1].found.tag = "Itself"
                              THEN "rstest" ELSE lookups[1].found.name,
                              "rstest">>],
               meta |-> "Path"]
        /\ \A i \in DOMAIN input_fn.attrs : item.attrs[i + 1] = input_fn.attrs[i]

C7_Witness ==
    /\ pc = "expanded"
    /\ Len(input_fn.attrs) = 2
    /\ input_fn.attrs[1] # input_fn.attrs[2]
    /\ Len(item.attrs) = 3

\* C8: the step of expand_body keeps the name, the attributes and the
\* parameters, and the new body is the suffix statement followed by one
\* with_settings! invocation whose block is the whole former body.
C8_BodyContained ==
    [][(pc = "bound" /\ pc' = "expanded") =>
        /\ item'.ident = item.ident
        /\ item'.attrs = item.attrs
        /\ item'.inputs = item.inputs
        /\ item.block = input_fn.block
        /\ Len(item'.block) = 2
        /\ item'.block[1].kind = "Local"
        /\ item'.block[1].init.binding = ctx_binding
        /\ item'.block[2].kind = "Macro"
        /\ item'.block[2].path.segments[2] = "with_settings"
        /\ item'.block[2].snapshot_suffix = item'.block[1].ident
        /\ item'.block[2].body = item.block]_vars

C8_Witness ==
    /\ pc = "expanded"
    /\ Len(input_fn.block) = 2
    /\ input_fn.block[1] # input_fn.block[2]
    /\ item.block[2].body = input_fn.block

\* C10: every resolution made returns ::<logical name> when the macro is
\* expanded inside the crate itself, ::<alias> for the alias the lookup
\* reports, and fails with the missing-dependency panic, aborting the
\* expansion, exactly when the lookup fails.
C10_Resolution ==
    \A i \in DOMAIN lookups :
        LET l == lookups[i] IN
        /\ l.found.tag = "Itself" =>
              /\ l.result.ok
              /\ l.result.path = [leading_colon |-> TRUE,
                                  segments |-> <<l.crate_name>>]
        /\ l.found.tag = "Name" =>
              /\ l.result.ok
              /\ l.result.path = [leading_colon |-> TRUE,
                                  segments |-> <<l.found.name>>]
        /\ l.found.tag = "Err" <=> ~l.result.ok
        /\ l.found.tag = "Err" =>
              /\ pc = "aborted"
              /\ panic = "missing crate in Cargo.toml"
              /\ i = Len(lookups)

C10_Witness ==
    /\ Len(lookups) = 2
    /\ lookups[1].found.tag = "Itself"
    /\ lookups[2].found.tag = "Name"
    /\ lookups[2].found.name # lookups[2].crate_name
    /\ pc = "expanded"

----------------------------------------------------------------------------
(* Claims about calls of the generated function (SpecRun).                 *)

Running == pc \in {"called", "at_settings", "in_scope", "returned"}

\* The decimal form of the case ordinals of the model, written out.
DecimalOf(n) == CASE n = 0 -> "0" [] n = 3 -> "3" [] n = 12 -> "12"

\* The suffix the specification gives for a Context.
ExpectedSuffix(c) ==
    IF c.description.tag = "Some" THEN c.description.val
    ELSE IF c.case.tag = "Some" THEN DecimalOf(c.case.val)
    ELSE "0"

\* What one call is to do, in order.
ExpectedEvents ==
    <<"compute_suffix", "enter_scope">>
    \o [i \in DOMAIN input_fn.block |-> input_fn.block[i].text]
    \o <<"exit_scope">>

\* C2: two calls of the generated function for different case ordinals
\* compute different suffixes.
C2_SuffixUniquePerCase ==
    (/\ pc = "returned"
     /\ last.tag = "Call"
     /\ last.case.tag = "Some"
     /\ ctx.case.tag = "Some"
     /\ last.case.val # ctx.case.val)
    => last.suffix # suffix

\* C3: the suffix computed is the description when there is one, else the
\* decimal string of the case ordinal when there is one, else "0".
C3_SuffixDerivation ==
    (Running /\ pc # "called") => suffix = ExpectedSuffix(ctx)

C3_Witness ==
    /\ pc = "returned"
    /\ ctx.description.tag = "None"
    /\ ctx.case = [tag |-> "Some", val |-> 12]
    /\ suffix = "12"
    /\ last.tag = "Call"
    /\ last.suffix = "alpha"

\* C9: a call computes the suffix, enters the snapshot scope configured
\* with that suffix, runs the statements of the original body once each in
\* order inside the scope, and leaves the scope; every capture made is
\* tagged with the suffix of the call.
C9_CallOrder ==
    Running =>
        /\ Len(events) <= Len(ExpectedEvents)
        /\ events = SubSeq(ExpectedEvents, 1, Len(events))
        /\ pc = "returned" => events = ExpectedEvents
        /\ scope.tag = "Settings" <=> pc = "in_scope"
        /\ scope.tag = "Settings" =>
              scope.snapshot_suffix = ExpectedSuffix(ctx)
        /\ \A k \in DOMAIN captures : captures[k] = ExpectedSuffix(ctx)
        /\ pc = "returned" =>
              Len(captures) =
                 Cardinality({i \in DOMAIN input_fn.block :
                                input_fn.block[i].text = "assert_snapshot"})

C9_Witness ==
    /\ pc = "returned"
    /\ Len(input_fn.block) = 2
    /\ input_fn.block[1].text = "println"
    /\ input_fn.block[2].text = "assert_snapshot"
    /\ events = <<"compute_suffix", "enter_scope", "println",
                  "assert_snapshot", "exit_scope">>
    /\ captures = <<"3">>

====
